---- MODULE Spec2Model ----
(***************************************************************************)
(* Text cleaners of codes/models/audio/tts/tacotron2/text/cleaners.py.     *)
(*                                                                         *)
(* A Python str is modelled as a sequence of Unicode code points (Nat), so *)
(* that matching, replacing and stripping are computed character by        *)
(* character as the library calls compute them.  Every cleaner is a pure   *)
(* function; the state machine picks an input text and calls one cleaner   *)
(* on it.                                                                  *)
(***************************************************************************)
EXTENDS Naturals, Integers, Sequences, FiniteSets

VARIABLES text, called, result
vars == <<text, called, result>>

(***************************************************************************)
(* Generic string helpers (Python str / re semantics).                     *)
(***************************************************************************)

\* s[i..] in Python slice terms: the suffix of s that starts at index i (1-based).
From(s, i) == SubSeq(s, i, Len(s))

\* s.startswith(p, i-1): p occurs in s at (1-based) index i.
OccursAt(s, p, i) ==
  /\ i >= 1
  /\ i + Len(p) - 1 <= Len(s)
  /\ SubSeq(s, i, i + Len(p) - 1) = p

\* p in s
Contains(s, p) == \E i \in 1..Len(s) : OccursAt(s, p, i)

\* str.isspace() / the regex class \s on str patterns: Unicode whitespace.
Whitespace ==
  (9..13) \cup (28..32) \cup {133, 160, 5760} \cup (8192..8202)
    \cup {8232, 8233, 8239, 8287, 12288}

IsSpace(c) == c \in Whitespace

\* \w on str patterns: alphanumerics and underscore (ASCII, U+017F, Arabic).
IsWordChar(c) ==
  c \in (48..57) \cup (65..90) \cup {95} \cup (97..122) \cup {383}
          \cup (1568..1610) \cup (1632..1641)

\* str.replace(old, new, 1): the first occurrence only.
RECURSIVE StrReplaceFirst(_, _, _)
StrReplaceFirst(s, old, new) ==
  IF Len(s) < Len(old) THEN s
  ELSE IF OccursAt(s, old, 1)
       THEN new \o From(s, Len(old) + 1)
       ELSE <<s[1]>> \o StrReplaceFirst(Tail(s), old, new)

\* str.replace(old, new): leftmost, non-overlapping occurrences of a non-empty old.
RECURSIVE StrReplace(_, _, _)
StrReplace(s, old, new) ==
  IF Len(s) < Len(old) THEN s
  ELSE IF OccursAt(s, old, 1)
       THEN new \o StrReplace(From(s, Len(old) + 1), old, new)
       ELSE <<s[1]>> \o StrReplace(Tail(s), old, new)

\* re.sub(r'\s\s', ' ', s): every pair of whitespace characters becomes one U+0020.
RECURSIVE SubWhitespacePairs(_)
SubWhitespacePairs(s) ==
  IF s = <<>> THEN <<>>
  ELSE IF Len(s) >= 2 /\ IsSpace(s[1]) /\ IsSpace(s[2])
       THEN <<32>> \o SubWhitespacePairs(From(s, 3))
       ELSE <<s[1]>> \o SubWhitespacePairs(Tail(s))

RECURSIVE SkipSpaces(_)
SkipSpaces(s) == IF s # <<>> /\ IsSpace(s[1]) THEN SkipSpaces(Tail(s)) ELSE s

\* re.sub(r'\s+', ' ', s): every maximal run of whitespace becomes one U+0020.
RECURSIVE SubWhitespaceRuns(_)
SubWhitespaceRuns(s) ==
  IF s = <<>> THEN <<>>
  ELSE IF IsSpace(s[1])
       THEN <<32>> \o SubWhitespaceRuns(SkipSpaces(s))
       ELSE <<s[1]>> \o SubWhitespaceRuns(Tail(s))

\* str.strip(): leading and trailing whitespace removed.
RECURSIVE RStrip(_)
RStrip(s) ==
  IF s # <<>> /\ IsSpace(s[Len(s)]) THEN RStrip(SubSeq(s, 1, Len(s) - 1)) ELSE s

StripNoOp(s) == s

Strip(s) == RStrip(SkipSpaces(s))

(***************************************************************************)
(* unicodedata.normalize("NFKC", s) on the characters the model feeds it:  *)
(* compatibility decomposition, canonical ordering of combining marks.     *)
(* None of the modelled characters takes part in a canonical composition.  *)
(***************************************************************************)

\* Compatibility decomposition of one code point.
Decomposition(c) ==
  CASE c = 160   -> <<32>>              \* U+00A0 NO-BREAK SPACE
    [] c = 65282 -> <<34>>              \* U+FF02 FULLWIDTH QUOTATION MARK
    [] c = 65249 -> <<1605>>            \* U+FEE1 ARABIC LETTER MEEM ISOLATED FORM
    [] c = 64606 -> <<32, 1612, 1617>>  \* U+FC5E LIGATURE SHADDA WITH DAMMATAN
    [] OTHER     -> <<c>>

\* Canonical combining class of the Arabic marks U+064B..U+065F; 0 for starters.
CCC(c) ==
  IF c \in 1611..1618 THEN c - 1584
  ELSE IF c \in {1621, 1622, 1628, 1631} THEN 220
  ELSE IF c \in 1619..1631 THEN 230
  ELSE 0

\* Canonical ordering: a mark moves left past marks of a higher class.
RECURSIVE InsertMark(_, _)
InsertMark(s, c) ==
  IF s = <<>> \/ CCC(c) = 0 \/ CCC(s[Len(s)]) <= CCC(c)
  THEN Append(s, c)
  ELSE Append(InsertMark(SubSeq(s, 1, Len(s) - 1), c), s[Len(s)])

RECURSIVE Reorder(_, _)
Reorder(done, rest) ==
  IF rest = <<>> THEN done ELSE Reorder(InsertMark(done, rest[1]), Tail(rest))

RECURSIVE Decompose(_)
Decompose(s) ==
  IF s = <<>> THEN <<>> ELSE Decomposition(s[1]) \o Decompose(Tail(s))

NFKC(s) == Reorder(<<>>, Decompose(s))

(***************************************************************************)
(* Arabic normalization.                                                   *)
(***************************************************************************)

\* ARABIC_ABBREVIATIONS, in insertion order: <<key, expansion>>.
ARABIC_ABBREVIATIONS ==
  << << <<1583, 46>>,
        <<1583, 1603, 1578, 1608, 1585>> >>,
     << <<1571, 46, 1583>>,
        <<1571, 1587, 1578, 1575, 1584, 32, 1583, 1603, 1578, 1608, 1585>> >>,
     << <<1605, 46>>,
        <<1605, 1607, 1606, 1583, 1587>> >>,
     << <<1603, 1580, 1605>>,
        <<1603, 1610, 1604, 1608, 1594, 1585, 1575, 1605>> >>,
     << <<1603, 1605>>,
        <<1603, 1610, 1604, 1608, 1605, 1578, 1585>> >>,
     << <<1583, 1608, 1604, 1575, 1585>>,
        <<1583, 1608, 1604, 1575, 1585, 32, 1571, 1605, 1585, 1610, 1603, 1610>> >> >>

\* The character class [ً-ٟ].
IsDiacriticOffByOne(c) == c \in 1611..1630

IsDiacritic(c) == c \in 1611..1631

IsQuote(c) == c = 34

\* re.sub(arabic_diacritics, '', text)
remove_diacritics(s) == SelectSeq(s, LAMBDA c : ~IsDiacritic(c))

\* text.replace('"', '')
RemoveQuotes(s) == SelectSeq(s, LAMBDA c : ~IsQuote(c))

\* The loop with token-boundary matching: a key is replaced only where no word
\* character precedes or follows it.
RECURSIVE ReplaceWordFrom(_, _, _, _)
ReplaceWordFrom(s, i, old, new) ==
  IF i > Len(s) THEN <<>>
  ELSE IF /\ OccursAt(s, old, i)
          /\ i = 1 \/ ~IsWordChar(s[i - 1])
          /\ i + Len(old) > Len(s) \/ ~IsWordChar(s[i + Len(old)])
       THEN new \o ReplaceWordFrom(s, i + Len(old), old, new)
       ELSE <<s[i]>> \o ReplaceWordFrom(s, i + 1, old, new)

RECURSIVE ExpandArabicWordsFrom(_, _)
ExpandArabicWordsFrom(s, k) ==
  IF k > Len(ARABIC_ABBREVIATIONS) THEN s
  ELSE ExpandArabicWordsFrom(
         ReplaceWordFrom(s, 1, ARABIC_ABBREVIATIONS[k][1], ARABIC_ABBREVIATIONS[k][2]),
         k + 1)

\* for abbr, full in ARABIC_ABBREVIATIONS.items(): text = text.replace(abbr, full)
RECURSIVE ExpandArabicFrom(_, _)
ExpandArabicFrom(s, k) ==
  IF k > Len(ARABIC_ABBREVIATIONS) THEN s
  ELSE ExpandArabicFrom(
         StrReplace(s, ARABIC_ABBREVIATIONS[k][1], ARABIC_ABBREVIATIONS[k][2]), k + 1)

ExpandArabic(s) == ExpandArabicFrom(s, 1)

\* The local variable text after the abbreviation loop (lines 63-68).
AfterExpansionDiacriticsFirst(s) == ExpandArabic(NFKC(remove_diacritics(s)))

AfterExpansion(s) == ExpandArabic(remove_diacritics(NFKC(s)))

normalize_arabic_text(s) ==
  Strip(RemoveQuotes(SubWhitespaceRuns(AfterExpansion(s))))

collapse_whitespace(s) == SubWhitespaceRuns(s)

(***************************************************************************)
(* English abbreviations.                                                  *)
(***************************************************************************)

\* The stems and replacements of _abbreviations, in list order; each stem x is
\* compiled to the pattern '\bx\.' with re.IGNORECASE.
abbreviations ==
  <<
     (* mrs  *) << <<109, 114, 115>>, <<109, 105, 115, 101, 115, 115>> >>,
     (* mr   *) << <<109, 114>>, <<109, 105, 115, 116, 101, 114>> >>,
     (* dr   *) << <<100, 114>>, <<100, 111, 99, 116, 111, 114>> >>,
     (* st   *) << <<115, 116>>, <<115, 97, 105, 110, 116>> >>,
     (* co   *) << <<99, 111>>, <<99, 111, 109, 112, 97, 110, 121>> >>,
     (* jr   *) << <<106, 114>>, <<106, 117, 110, 105, 111, 114>> >>,
     (* maj  *) << <<109, 97, 106>>, <<109, 97, 106, 111, 114>> >>,
     (* gen  *) << <<103, 101, 110>>, <<103, 101, 110, 101, 114, 97, 108>> >>,
     (* drs  *) << <<100, 114, 115>>, <<100, 111, 99, 116, 111, 114, 115>> >>,
     (* rev  *) << <<114, 101, 118>>, <<114, 101, 118, 101, 114, 101, 110, 100>> >>,
     (* lt   *) << <<108, 116>>, <<108, 105, 101, 117, 116, 101, 110, 97, 110, 116>> >>,
     (* hon  *) << <<104, 111, 110>>, <<104, 111, 110, 111, 114, 97, 98, 108, 101>> >>,
     (* sgt  *) << <<115, 103, 116>>, <<115, 101, 114, 103, 101, 97, 110, 116>> >>,
     (* capt *) << <<99, 97, 112, 116>>, <<99, 97, 112, 116, 97, 105, 110>> >>,
     (* esq  *) << <<101, 115, 113>>, <<101, 115, 113, 117, 105, 114, 101>> >>,
     (* ltd  *) << <<108, 116, 100>>, <<108, 105, 109, 105, 116, 101, 100>> >>,
     (* col  *) << <<99, 111, 108>>, <<99, 111, 108, 111, 110, 101, 108>> >>,
     (* ft   *) << <<102, 116>>, <<102, 111, 114, 116>> >>
  >>

\* Simple case folding of re.IGNORECASE on the letters of the stems.
FoldCase(c) ==
  IF c \in 65..90 THEN c + 32
  ELSE IF c = 383 THEN 115
  ELSE c

\* The pattern '\bstem\.' matches s at index i.
AbbrevMatchesAtNoBoundary(s, i, stem) ==
  /\ i + Len(stem) <= Len(s)
  /\ \A j \in 1..Len(stem) : FoldCase(s[i + j - 1]) = stem[j]
  /\ s[i + Len(stem)] = 46

AbbrevMatchesAtCaseSensitive(s, i, stem) ==
  /\ i = 1 \/ ~IsWordChar(s[i - 1])
  /\ i + Len(stem) <= Len(s)
  /\ \A j \in 1..Len(stem) : s[i + j - 1] = stem[j]
  /\ s[i + Len(stem)] = 46

AbbrevMatchesAt(s, i, stem) ==
  /\ i = 1 \/ ~IsWordChar(s[i - 1])
  /\ i + Len(stem) <= Len(s)
  /\ \A j \in 1..Len(stem) : FoldCase(s[i + j - 1]) = stem[j]
  /\ s[i + Len(stem)] = 46

\* re.sub(regex, replacement, s): one left-to-right scan of s from index i;
\* the boundary test looks at s itself, also behind an earlier match.
RECURSIVE RegexSubFrom(_, _, _, _)
RegexSubFrom(s, i, stem, replacement) ==
  IF i > Len(s) THEN <<>>
  ELSE IF AbbrevMatchesAt(s, i, stem)
       THEN replacement \o RegexSubFrom(s, i + Len(stem) + 1, stem, replacement)
       ELSE <<s[i]>> \o RegexSubFrom(s, i + 1, stem, replacement)

\* for regex, replacement in _abbreviations: text = re.sub(regex, replacement, text)
RECURSIVE ExpandFrom(_, _)
ExpandFrom(s, k) ==
  IF k > Len(abbreviations) THEN s
  ELSE ExpandFrom(RegexSubFrom(s, 1, abbreviations[k][1], abbreviations[k][2]), k + 1)

expand_abbreviations(s) == ExpandFrom(s, 1)

\* str.lower() on the letters the model uses (ASCII).
lowercase(s) == [i \in 1..Len(s) |-> IF s[i] \in 65..90 THEN s[i] + 32 ELSE s[i]]

\* The pipeline this module's docstring describes for English text.
english_cleaners_english(s) ==
  collapse_whitespace(expand_abbreviations(lowercase(s)))

english_cleaners(s) == normalize_arabic_text(s)

(***************************************************************************)
(* Input texts: concatenations of at most n pieces of a finite piece set.  *)
(***************************************************************************)
RECURSIVE Texts(_, _)
Texts(P, n) ==
  IF n = 0 THEN {<<>>}
  ELSE LET S == Texts(P, n - 1) IN S \cup {s \o p : s \in S, p \in P}

MaxWsLen == 5

\* a letter, space, newline, double quote, fatha, ligature shadda+dammatan
WsPieces == {<<1576>>, <<32>>, <<10>>, <<34>>, <<1614>>, <<64606>>}

MaxDiaLen == 4

\* U+064A and U+0660 (the neighbours of the range), U+064B, U+064E, U+065F, "a"
DiaPieces == {<<1610>>, <<1632>>, <<1611>>, <<1614>>, <<1631>>, <<97>>}

MaxAbbrLen == 4

\* the letters of the keys (dal, period, alef-hamza, meem, kaf, kaf+jeem,
\* waw+lam+alef+reh), space, double quote, fatha, isolated-form meem
AbbrPieces ==
  {<<1583>>, <<46>>, <<1571>>, <<1605>>, <<1603>>, <<1603, 1580>>,
   <<1608, 1604, 1575, 1585>>, <<32>>, <<34>>, <<1614>>, <<65249>>}

MaxEnLen == 4

\* "Mr", "mr", "St", "Dr", "s", ".", " ", "X", "1"
EnPieces ==
  {<<77, 114>>, <<109, 114>>, <<83, 116>>, <<68, 114>>, <<115>>, <<46>>,
   <<32>>, <<88>>, <<49>>}

\* "Dr. Smith and Mrs. Jones"
DrSmith == <<68, 114, 46, 32, 83, 109, 105, 116, 104, 32, 97, 110, 100, 32, 77, 114, 115, 46, 32, 74, 111, 110, 101, 115>>

\* "Lt.Col. Smith"
LtCol == <<76, 116, 46, 67, 111, 108, 46, 32, 83, 109, 105, 116, 104>>

(***************************************************************************)
(* The calls: a cleaner is called once on the chosen text.                 *)
(***************************************************************************)
NormalizeArabicText ==
  /\ called = "none"
  /\ called' = "normalize_arabic_text"
  /\ result' = normalize_arabic_text(text)
  /\ UNCHANGED text

CollapseWhitespace ==
  /\ called = "none"
  /\ called' = "collapse_whitespace"
  /\ result' = collapse_whitespace(text)
  /\ UNCHANGED text

\* "  مرحبا  "
Marhaba == <<32, 32, 1605, 1585, 1581, 1576, 1575, 32, 32>>

InitWs ==
  /\ text \in Texts(WsPieces, MaxWsLen) \cup {Marhaba}
  /\ called = "none"
  /\ result = <<>>

NextWs == NormalizeArabicText \/ CollapseWhitespace

SpecWs == InitWs /\ [][NextWs]_vars

RemoveDiacritics ==
  /\ called = "none"
  /\ called' = "remove_diacritics"
  /\ result' = remove_diacritics(text)
  /\ UNCHANGED text

InitDia == text \in Texts(DiaPieces, MaxDiaLen) /\ called = "none" /\ result = <<>>

NextDia == RemoveDiacritics

SpecDia == InitDia /\ [][NextDia]_vars

InitAbbr == text \in Texts(AbbrPieces, MaxAbbrLen) /\ called = "none" /\ result = <<>>

NextAbbr == NormalizeArabicText

SpecAbbr == InitAbbr /\ [][NextAbbr]_vars

ExpandAbbreviations ==
  /\ called = "none"
  /\ called' = "expand_abbreviations"
  /\ result' = expand_abbreviations(text)
  /\ UNCHANGED text

EnglishCleaners ==
  /\ called = "none"
  /\ called' = "english_cleaners"
  /\ result' = english_cleaners(text)
  /\ UNCHANGED text

InitEn ==
  /\ text \in Texts(EnPieces, MaxEnLen) \cup {DrSmith, LtCol}
  /\ called = "none"
  /\ result = <<>>

NextEn == ExpandAbbreviations \/ EnglishCleaners

SpecEn == InitEn /\ [][NextEn]_vars

Returned(name) == called = name

HasSpaceRun(s) == \E i \in 1..(Len(s) - 1) : IsSpace(s[i]) /\ IsSpace(s[i + 1])

HasCharIn(s, C) == \E i \in 1..Len(s) : s[i] \in C

HasDiacritic(s) == \E i \in 1..Len(s) : IsDiacritic(s[i])

HasQuote(s) == \E i \in 1..Len(s) : IsQuote(s[i])

NonSpaces(s) == SelectSeq(s, LAMBDA c : ~IsSpace(c))

\* C1: the text returned by normalize_arabic_text has no run of two or more
\* consecutive whitespace characters.
C1_NoWhitespaceRun ==
  Returned("normalize_arabic_text") => ~HasSpaceRun(result)

\* C3: the text returned by normalize_arabic_text contains no character of
\* U+064B..U+065F and no double quote, whatever the input held and whatever
\* NFKC and the abbreviation expansion produced on the way.
C3_NoDiacriticNoQuote ==
  Returned("normalize_arabic_text") =>
    /\ ~HasDiacritic(result)
    /\ ~HasQuote(result)

\* C3 witness: the input holds a quote, a diacritic and a ligature that NFKC
\* decomposes into diacritics, and the call returned a non-empty text.
C3_Witness ==
  /\ Returned("normalize_arabic_text")
  /\ HasQuote(text)
  /\ HasDiacritic(text)
  /\ HasCharIn(text, {64606})
  /\ result # <<>>

\* C4: the text returned by normalize_arabic_text neither begins nor ends with
\* a whitespace character, and "  مرحبا  " yields "مرحبا".
C4_Stripped ==
  Returned("normalize_arabic_text") =>
    /\ result # <<>> => ~IsSpace(result[1]) /\ ~IsSpace(result[Len(result)])
    /\ text = Marhaba => result = <<1605, 1585, 1581, 1576, 1575>>

\* C4 witness: the outermost non-whitespace characters of the input are double
\* quotes with whitespace inside them, and a letter is returned.
C4_Witness ==
  /\ Returned("normalize_arabic_text")
  /\ text = <<34, 32, 1576, 10, 34>>
  /\ result = <<1576>>

\* C8: collapse_whitespace applied to its own result returns that result.
C8_CollapseIdempotent ==
  Returned("collapse_whitespace") => collapse_whitespace(result) = result

\* C8 witness: the input holds a run of three whitespace characters and the
\* call shortened it.
C8_Witness ==
  /\ Returned("collapse_whitespace")
  /\ \E i \in 1..(Len(text) - 2) :
        IsSpace(text[i]) /\ IsSpace(text[i + 1]) /\ IsSpace(text[i + 2])
  /\ Len(result) < Len(text)

ArabicKeys == {ARABIC_ABBREVIATIONS[k][1] : k \in 1..Len(ARABIC_ABBREVIATIONS)}

Dollar == ARABIC_ABBREVIATIONS[6][1]

Kgm == ARABIC_ABBREVIATIONS[4][1]

Kilogram == ARABIC_ABBREVIATIONS[4][2]

\* The number of indices at which p occurs in s.
Occurrences(s, p) == Cardinality({i \in 1..Len(s) : OccursAt(s, p, i)})

\* C2: the text returned by normalize_arabic_text contains no key of the
\* Arabic abbreviation table as a substring.
C2_NoKeyRemains ==
  Returned("normalize_arabic_text") =>
    \A key \in ArabicKeys : ~Contains(result, key)

\* C2 as amended: the text left by the abbreviation loop contains none of the
\* five keys other than "دولار", and neither does the returned text unless the
\* input (after NFKC) held a double quote, whose removal can join a key.
C2_NoOtherKeyRemains ==
  Returned("normalize_arabic_text") =>
    \A key \in ArabicKeys \ {Dollar} :
      /\ ~Contains(AfterExpansion(text), key)
      /\ ~HasQuote(NFKC(text)) => ~Contains(result, key)

\* C2 witness: the input holds two keys other than "دولار" and no quote, and
\* the call returned their expansions.
C2_Witness ==
  /\ Returned("normalize_arabic_text")
  /\ ~HasQuote(NFKC(text))
  /\ Cardinality({key \in ArabicKeys \ {Dollar} : Contains(text, key)}) >= 2
  /\ Len(result) > Len(text)

\* C5: every occurrence of "كجم" in the input is replaced by "كيلوغرام": the
\* text left by the abbreviation loop has "كيلوغرام" where the occurrence
\* stood (right after the expansion of what precedes it) and holds no "كجم",
\* and the returned text holds "كيلوغرام" once for each occurrence.
C5_KgmExpanded ==
  Returned("normalize_arabic_text") =>
    /\ \A i \in 1..Len(text) :
         OccursAt(text, Kgm, i) =>
           OccursAt(AfterExpansion(text), Kilogram,
                    Len(AfterExpansion(SubSeq(text, 1, i - 1))) + 1)
    /\ Contains(text, Kgm) => ~Contains(AfterExpansion(text), Kgm)
    /\ Occurrences(result, Kilogram) >= Occurrences(text, Kgm)

\* C5 witness: "كجم" stands inside a longer word, right after a letter and
\* right before a period, and the call returned "كيلوغرام" in its place.
C5_Witness ==
  /\ Returned("normalize_arabic_text")
  /\ text = <<1603>> \o Kgm \o <<46>>
  /\ result = <<1603>> \o Kilogram \o <<1607, 1606, 1583, 1587>>

\* The characters of s outside U+064B..U+065F, in order.
RECURSIVE OutsideRange(_)
OutsideRange(s) ==
  IF s = <<>> THEN <<>>
  ELSE IF s[1] < 1611 \/ s[1] > 1631
       THEN <<s[1]>> \o OutsideRange(Tail(s))
       ELSE OutsideRange(Tail(s))

\* C7: remove_diacritics returns exactly the characters of its input that lie
\* outside U+064B..U+065F, in their original order.
C7_ExactlyOutsideRange ==
  Returned("remove_diacritics") => result = OutsideRange(text)

\* C7 witness: the input holds both ends of the range and both neighbours of
\* the range, and exactly the neighbours were returned.
C7_Witness ==
  /\ Returned("remove_diacritics")
  /\ \A c \in {1610, 1611, 1631, 1632} : HasCharIn(text, {c})
  /\ Len(result) = 2

\* Rule k of the table matches s at index i: its stem in any letter case,
\* then a period, with no word character before the stem.
IsAbbrevAt(s, i, k) ==
  LET stem == abbreviations[k][1] IN
    /\ i + Len(stem) <= Len(s)
    /\ s[i + Len(stem)] = 46
    /\ \A j \in 1..Len(stem) : FoldCase(s[i + j - 1]) = stem[j]
    /\ i > 1 => ~IsWordChar(s[i - 1])

RuleAt(s, i) == {k \in 1..Len(abbreviations) : IsAbbrevAt(s, i, k)}

HasAbbrev(s) == \E i \in 1..Len(s) : RuleAt(s, i) # {}

\* One scan of s from index i that replaces a matched abbreviation by its
\* full word.  With inOrder, a match that starts right after a replaced
\* abbreviation of an earlier-listed rule (prev) is left as it is.
RECURSIVE Scan(_, _, _, _)
Scan(s, i, prev, inOrder) ==
  IF i > Len(s) THEN <<>>
  ELSE IF RuleAt(s, i) # {} /\ ~(inOrder /\ prev > 0 /\ \A k \in RuleAt(s, i) : prev < k)
       THEN LET k == CHOOSE r \in RuleAt(s, i) : TRUE
            IN abbreviations[k][2] \o Scan(s, i + Len(abbreviations[k][1]) + 1, k, inOrder)
       ELSE <<s[i]>> \o Scan(s, i + 1, 0, inOrder)

\* C6: expand_abbreviations replaces every abbreviation of its input by the
\* lower-case full word and leaves every other character as it is.
C6_EveryMatchReplaced ==
  Returned("expand_abbreviations") => result = Scan(text, 1, 0, FALSE)

\* C6 as amended: every abbreviation is replaced by the lower-case full word,
\* except one that starts right after a replaced abbreviation of an
\* earlier-listed rule; every other character is left as it is; and
\* "Dr. Smith and Mrs. Jones" yields "doctor Smith and misess Jones".
C6_MatchesReplacedInTableOrder ==
  Returned("expand_abbreviations") =>
    /\ result = Scan(text, 1, 0, TRUE)
    /\ text = DrSmith =>
         result = <<100, 111, 99, 116, 111, 114, 32, 83, 109, 105, 116, 104,
                    32, 97, 110, 100, 32, 109, 105, 115, 101, 115, 115, 32,
                    74, 111, 110, 101, 115>>

\* C6 witness: "Lt.Col. Smith" was given and "lieutenantCol. Smith" returned.
C6_Witness ==
  /\ Returned("expand_abbreviations")
  /\ text = LtCol
  /\ result = <<108, 105, 101, 117, 116, 101, 110, 97, 110, 116,
                67, 111, 108, 46, 32, 83, 109, 105, 116, 104>>

\* C10: expand_abbreviations returns its input unchanged exactly when no stem
\* in it is followed by a period and not preceded by a word character.
C10_FiresOnlyOnAbbreviation ==
  Returned("expand_abbreviations") => (result = text <=> ~HasAbbrev(text))

\* C10 witness: "MrXmr.", a stem without a period and a stem with a period at
\* the tail of a longer word, came back unchanged.
C10_Witness ==
  /\ Returned("expand_abbreviations")
  /\ text = <<77, 114, 88, 109, 114, 46>>
  /\ result = text

====
